---- MODULE Spec2Model ----
(***************************************************************************)
(* Aging-priority print queue: PriorityJob (priority_job.py),              *)
(* PriorityQueue (priority_queue.py) and PriorityManager                   *)
(* (priority_manager.py).                                                  *)
(*                                                                         *)
(* Time is the integer clock `now` (datetime.now(), in seconds).  Every    *)
(* manager operation runs under PriorityManager._lock and reads the clock  *)
(* at one instant.                                                         *)
(***************************************************************************)
EXTENDS Integers, Sequences, FiniteSets, TLC

(* ------------------------------ bounds -------------------------------- *)

\* The clock runs from 0 to MaxTime.
MaxTime == 3
\* At most MaxJobs PriorityJob objects are ever accepted by the queue.
MaxJobs == 2
\* PriorityQueue._counter never exceeds MaxCounter.
MaxCounter == 5

\* With threads, a snapshot pass starts only while _counter leaves room for
\* MaxCounterThreads pushes in all.
MaxCounterThreads == 8

\* PriorityManager(default_aging_interval, default_max_wait): the
\* constructor arguments of the instance under study, in clock units.
default_aging_interval == 2
default_max_wait == 2

\* An optional argument: <<>> is None, <<v>> the value v.
NoArg == <<>>
Arg(v) == <<v>>

\* The inputs of the callers that go through the integration facade
\* (enqueue_job passes neither aging_interval nor max_wait_time).
JobIds == {"j1", "j2"}
UserIds == {"u1"}
DocumentNames == {"d1"}
PageCounts == {2}
Priorities == {4, 5}
AgingIntervalArgs == {NoArg}
MaxWaitArgs == {NoArg}

\* The inputs of a caller of PriorityManager.submit_job itself: nothing
\* restricts pages, aging_interval or max_wait_time.
AnyJobIds == {"j1"}
AnyPageCounts == {-1, 2}
AnyPriorities == {4}
AnyAgingIntervalArgs == {NoArg, Arg(-1), Arg(0), Arg(1)}
AnyMaxWaitArgs == {NoArg}

(* ------------------------------ state --------------------------------- *)

VARIABLES
    now,         \* datetime.now()
    jobs,        \* every PriorityJob object the queue accepted, by identity
    job_lookup,  \* PriorityQueue._job_lookup: the dict's values in insertion
                 \* order, as indices into jobs (the key is the job's job_id)
    heap,        \* PriorityQueue._heap: a sequence of [key, job] entries
    counter,     \* PriorityQueue._counter
    ret,         \* the last operation, its arguments and what it returned
    lock,        \* PriorityManager._lock: the thread that holds it
    pc,          \* each thread's position in its method
    local,       \* each thread's local variables
    running,     \* PriorityManager._running
    aging_thread,            \* PriorityManager._aging_thread
    status_change_callback,  \* PrintQueueIntegration.status_change_callback
    queue,       \* PrintQueueManager.queue
    current_time \* PrintQueueManager.current_time

qvars == <<jobs, job_lookup, heap, counter>>
tvars == <<lock, pc, local>>
\* The fields of PriorityManager's lifecycle, of the integration facade and
\* of the tick-driven PrintQueueManager.
xvars == <<running, aging_thread, status_change_callback, queue, current_time>>
vars == <<now, jobs, job_lookup, heap, counter, ret, lock, pc, local, running,
          aging_thread, status_change_callback, queue, current_time>>

(* --------------------------- priority_job.py -------------------------- *)

\* The cap of current_priority.
MaxPriority == 5

PENDING == "pending"
COMPLETED == "completed"
EXPIRED == "expired"

\* Python's floor division a // b for b # 0.
FloorDiv(a, b) == IF b > 0 THEN a \div b ELSE (0 - a) \div (0 - b)

Min(a, b) == IF a <= b THEN a ELSE b

PriorityJob(job_id, user_id, document_name, pages, initial_priority, aging_interval, max_wait_time, t) ==
    [job_id |-> job_id, user_id |-> user_id, document_name |-> document_name,
     pages |-> pages, initial_priority |-> initial_priority,
     created_at |-> t, status |-> PENDING,
     aging_interval |-> aging_interval, max_wait_time |-> max_wait_time]

wait_time_seconds(job, t) == t - job.created_at

current_priority(job, t) ==
    IF job.status # PENDING
    THEN job.initial_priority
    ELSE Min(MaxPriority,
             job.initial_priority
               + FloorDiv(wait_time_seconds(job, t), job.aging_interval))

is_expired(job, t) == wait_time_seconds(job, t) > job.max_wait_time

(* -------------------------- priority_queue.py ------------------------- *)

\* The queue object: the fields of PriorityQueue and the job objects they
\* refer to.
Queue == [jobs |-> jobs, job_lookup |-> job_lookup, heap |-> heap,
          counter |-> counter]

\* Python's tuple order on (-current_priority, created_at, counter).
KeyLess(a, b) ==
    \/ a[1] < b[1]
    \/ a[1] = b[1] /\ a[2] < b[2]
    \/ a[1] = b[1] /\ a[2] = b[2] /\ a[3] < b[3]

\* Order of the heap's (priority_key, job) tuples.  The counter makes the
\* keys of one heap distinct, so the comparison never reaches the job.
ItemLess(x, y) == KeyLess(x.key, y.key)

\* heapq._siftdown(heap, 0, pos) with newitem held out; positions from 1.
RECURSIVE siftdown(_, _, _)
siftdown(h, pos, newitem) ==
    IF pos > 1 /\ ItemLess(newitem, h[pos \div 2])
    THEN siftdown([h EXCEPT ![pos] = h[pos \div 2]], pos \div 2, newitem)
    ELSE [h EXCEPT ![pos] = newitem]

heappush(h, item) == siftdown(Append(h, item), Len(h) + 1, item)

\* sorted(list): insertion of x into the sorted sequence s.
RECURSIVE insort(_, _)
insort(s, x) ==
    IF s = <<>> THEN <<x>>
    ELSE IF ItemLess(x, Head(s)) THEN <<x>> \o s
    ELSE <<Head(s)>> \o insort(Tail(s), x)

RECURSIVE sorted(_)
sorted(h) == IF h = <<>> THEN <<>>
             ELSE insort(sorted(SubSeq(h, 1, Len(h) - 1)), h[Len(h)])

IsPending(q, i) == q.jobs[i].status = PENDING

priority_key(q, i, t) ==
    <<0 - current_priority(q.jobs[i], t), q.jobs[i].created_at, q.counter>>

\* One pass of the loop of _rebuild_heap / the push of add_job.
push_job(q, i, t) ==
    [q EXCEPT !.heap = heappush(q.heap, [key |-> priority_key(q, i, t),
                                         job |-> i]),
              !.counter = q.counter + 1]

\* _rebuild_heap without its self._heap.clear().
rebuild_heap_append(q, t) ==
    LET Active(i) == q.jobs[i].status = PENDING
        RECURSIVE Push(_, _)
        Push(h, js) ==
            IF js = <<>> THEN h
            ELSE Push([h EXCEPT
                         !.heap = Append(h.heap,
                                    [key |-> <<0 - current_priority(
                                                     h.jobs[Head(js)], t),
                                               h.jobs[Head(js)].created_at,
                                               h.counter>>,
                                     job |-> Head(js)]),
                         !.counter = h.counter + 1], Tail(js))
    IN  Push(q, SelectSeq(q.job_lookup, Active))

RECURSIVE push_all(_, _, _)
push_all(q, active_jobs, t) ==
    IF active_jobs = <<>> THEN q
    ELSE push_all(push_job(q, Head(active_jobs), t), Tail(active_jobs), t)

rebuild_heap(q, t) ==
    LET Active(i)   == IsPending(q, i)
        active_jobs == SelectSeq(q.job_lookup, Active)
    IN  push_all([q EXCEPT !.heap = <<>>], active_jobs, t)

\* add_job without its duplicate test: the new object takes the id's slot.
add_job_overwrite(q, job, t) ==
    LET i  == Len(q.jobs) + 1
        q1 == [q EXCEPT !.jobs = Append(q.jobs, job)]
        q2 == push_job(q1, i, t)
        Known(k) == q.jobs[q.job_lookup[k]].job_id = job.job_id
    IN  [q |-> [q2 EXCEPT !.job_lookup =
                   IF \E k \in 1..Len(q.job_lookup) : Known(k)
                   THEN [k \in 1..Len(q.job_lookup) |->
                           IF Known(k) THEN i ELSE q.job_lookup[k]]
                   ELSE Append(q.job_lookup, i)],
         result |-> TRUE]

HasJobId(q, job_id) ==
    \E k \in 1..Len(q.job_lookup) : q.jobs[q.job_lookup[k]].job_id = job_id

\* add_job on a freshly constructed job object: [q, result].
add_job(q, job, t) ==
    IF HasJobId(q, job.job_id)
    THEN [q |-> q, result |-> FALSE]
    ELSE LET i  == Len(q.jobs) + 1
             q1 == [q EXCEPT !.jobs = Append(q.jobs, job)]
             q2 == push_job(q1, i, t)
         IN  [q |-> [q2 EXCEPT !.job_lookup = Append(q.job_lookup, i)],
              result |-> TRUE]

\* The first loop of _cleanup_expired_jobs: the jobs it finds expired ...
expired_scan(q, t) ==
    LET Expire(i) == is_expired(q.jobs[i], t) /\ IsPending(q, i)
    IN  SelectSeq(q.job_lookup, Expire)

\* ... and marks EXPIRED.
mark_expired(q, expired_jobs) ==
    [q EXCEPT !.jobs =
       [i \in 1..Len(q.jobs) |->
          IF \E k \in 1..Len(expired_jobs) : expired_jobs[k] = i
          THEN [q.jobs[i] EXCEPT !.status = EXPIRED]
          ELSE q.jobs[i]]]

\* The second loop: del self._job_lookup[job_id] for each of them.
delete_jobs(q, expired_jobs) ==
    LET Keep(i) == \A k \in 1..Len(expired_jobs) :
                      q.jobs[expired_jobs[k]].job_id # q.jobs[i].job_id
    IN  [q EXCEPT !.job_lookup = SelectSeq(q.job_lookup, Keep)]

\* _cleanup_expired_jobs that sweeps nothing.
cleanup_expired_jobs_skip(q, t) == q

\* _cleanup_expired_jobs that marks the jobs but leaves them in the lookup.
cleanup_expired_jobs_keep(q, t) ==
    LET Expire(i) == is_expired(q.jobs[i], t) /\ IsPending(q, i)
        q1 == [q EXCEPT !.jobs =
                 [i \in 1..Len(q.jobs) |->
                    IF Expire(i) /\ \E k \in 1..Len(q.job_lookup) :
                                       q.job_lookup[k] = i
                    THEN [q.jobs[i] EXCEPT !.status = EXPIRED]
                    ELSE q.jobs[i]]]
    IN  IF q1.jobs # q.jobs THEN rebuild_heap(q1, t) ELSE q1

cleanup_expired_jobs(q, t) ==
    LET expired_jobs == expired_scan(q, t)
        q1 == delete_jobs(mark_expired(q, expired_jobs), expired_jobs)
    IN  IF expired_jobs # <<>> THEN rebuild_heap(q1, t) ELSE q1

\* _rebalance_priorities whose needs_rebalance is never set.
rebalance_priorities_never(q, t) == q

rebalance_priorities(q, t) ==
    LET needs_rebalance ==
            \E k \in 1..Len(q.heap) : q.jobs[q.heap[k].job].status = PENDING
    IN  IF needs_rebalance THEN rebuild_heap(q, t) ELSE q

NoJob == 0

\* get_next_job that pops the job it returns.
queue_get_next_job_pop(q, t) ==
    LET q1 == rebalance_priorities(cleanup_expired_jobs(q, t), t)
    IN  IF q1.heap = <<>> THEN [q |-> q1, result |-> NoJob]
        ELSE LET i == q1.heap[1].job
                 Others(j) == j # i
             IN  [q |-> rebuild_heap(
                          [q1 EXCEPT !.job_lookup =
                                       SelectSeq(q1.job_lookup, Others)], t),
                  result |-> i]

\* get_next_job: [q, result], result the job's index or NoJob.
queue_get_next_job(q, t) ==
    LET q1 == rebalance_priorities(cleanup_expired_jobs(q, t), t)
    IN  [q |-> q1,
         result |-> IF q1.heap = <<>> THEN NoJob
                    ELSE IF q1.jobs[q1.heap[1].job].status = PENDING
                         THEN q1.heap[1].job ELSE NoJob]

\* remove_job that looks the job up and returns it, removing nothing.
remove_job_peek(q, job_id, t) ==
    IF ~HasJobId(q, job_id)
    THEN [q |-> q, result |-> NoJob]
    ELSE [q |-> q,
          result |-> CHOOSE i \in 1..Len(q.jobs) :
                       /\ q.jobs[i].job_id = job_id
                       /\ \E k \in 1..Len(q.job_lookup) : q.job_lookup[k] = i]

\* remove_job: [q, result], result the job's index or NoJob.
remove_job(q, job_id, t) ==
    IF ~HasJobId(q, job_id)
    THEN [q |-> q, result |-> NoJob]
    ELSE LET i  == CHOOSE i \in 1..Len(q.jobs) :
                     /\ q.jobs[i].job_id = job_id
                     /\ \E k \in 1..Len(q.job_lookup) : q.job_lookup[k] = i
             Others(j) == j # i
             q1 == [q EXCEPT !.job_lookup = SelectSeq(q.job_lookup, Others),
                             !.jobs[i].status = COMPLETED]
         IN  [q |-> rebuild_heap(q1, t), result |-> i]

JobView(job, t) ==
    [job_id |-> job.job_id, user_id |-> job.user_id,
     document_name |-> job.document_name,
     initial_priority |-> job.initial_priority,
     current_priority |-> current_priority(job, t),
     wait_time |-> wait_time_seconds(job, t),
     pages |-> job.pages, created_at |-> job.created_at]

\* The loop of get_queue_snapshot over sorted(self._heap).
snapshot_of(q, t) ==
    LET EntryPending(e) == q.jobs[e.job].status = PENDING
        kept == SelectSeq(sorted(q.heap), EntryPending)
    IN  [k \in 1..Len(kept) |-> JobView(q.jobs[kept[k].job], t)]

\* get_queue_snapshot: [q, result], result the list of dicts.
get_queue_snapshot(q, t) ==
    LET q1 == rebalance_priorities(cleanup_expired_jobs(q, t), t)
    IN  [q |-> q1, result |-> snapshot_of(q1, t)]

size(q) ==
    LET Active(i) == IsPending(q, i)
    IN  Len(SelectSeq(q.job_lookup, Active))

(* ------------------------- priority_manager.py ------------------------ *)

\* Python's `x or default` for an optional integer: None and 0 are falsy.
OrDefault(x, default) == IF x = NoArg \/ x[1] = 0 THEN default ELSE x[1]

\* submit_job under the lock: [q, result].
submit_job(q, job_id, user_id, document_name, pages, initial_priority, aging_interval, max_wait_time, t) ==
    add_job(q,
            PriorityJob(job_id, user_id, document_name, pages,
                        initial_priority,
                        OrDefault(aging_interval, default_aging_interval),
                        OrDefault(max_wait_time, default_max_wait), t),
            t)

None == [none |-> TRUE]

\* get_next_job under the lock: [q, result], result a dict or None.
get_next_job(q, t) ==
    LET r == queue_get_next_job(q, t)
    IN  [q |-> r.q,
         result |-> IF r.result # NoJob
                    THEN LET job == r.q.jobs[r.result]
                         IN  [job_id |-> job.job_id, user_id |-> job.user_id,
                              document_name |-> job.document_name,
                              pages |-> job.pages,
                              current_priority |-> current_priority(job, t),
                              wait_time |-> wait_time_seconds(job, t)]
                    ELSE None]

\* complete_job that reports success whatever remove_job returned.
complete_job_true(q, job_id, t) ==
    [q |-> remove_job(q, job_id, t).q, result |-> TRUE]

\* complete_job that sweeps the expired jobs before it removes.
complete_job_sweep(q, job_id, t) ==
    LET r == remove_job(cleanup_expired_jobs(q, t), job_id, t)
    IN  [q |-> r.q, result |-> r.result # NoJob]

\* complete_job under the lock: [q, result].
complete_job(q, job_id, t) ==
    LET r == remove_job(q, job_id, t)
    IN  [q |-> r.q, result |-> r.result # NoJob]

RECURSIVE SumWait(_)
SumWait(snapshot) ==
    IF snapshot = <<>> THEN 0
    ELSE Head(snapshot).wait_time + SumWait(Tail(snapshot))

\* The statistics of get_queue_status.  avg_wait_time is the quotient of
\* the pair <<sum of wait_time, total_jobs>>.
status_of(snapshot) ==
    LET total_jobs == Len(snapshot)
        seen == {snapshot[k].current_priority : k \in 1..total_jobs}
    IN  IF total_jobs = 0
        THEN [total_jobs |-> 0, avg_wait_time |-> <<0, 1>>,
              priority_distribution |-> <<>>, jobs |-> <<>>]
        ELSE [total_jobs |-> total_jobs,
              avg_wait_time |-> <<SumWait(snapshot), total_jobs>>,
              priority_distribution |->
                [p \in seen |->
                   Cardinality({k \in 1..total_jobs :
                                  snapshot[k].current_priority = p})],
              jobs |-> snapshot]

\* get_queue_status under the lock: [q, result].
get_queue_status(q, t) ==
    LET r == get_queue_snapshot(q, t)
    IN  [q |-> r.q, result |-> status_of(r.result)]

(* ------------------------------ actions ------------------------------- *)

\* The threads: two callers of submit_job, a caller of get_queue_status
\* and the aging worker.
Submitters == {"s1", "s2"}
Reader == "r"
Worker == "w"
\* A caller of PrintQueueIntegration.cleanup_expired_jobs and a caller of
\* complete_job.
Cleaner == "c"
Completer == "k"
\* The callers of start_aging_system and stop_aging_system.
Controllers == {"a1", "a2"}
\* The Thread objects start_aging_system can create for _aging_worker.
Workers == {Worker, "w2"}
Threads == Submitters \cup {Reader, Cleaner, Completer} \cup Controllers
             \cup Workers
NoThread == "none"
\* status_change_callback = None, and the callables a caller registers.
NoCallback == "None"
Callbacks == {"cb1", "cb2"}

\* The job_id each submitter submits: pairwise distinct.  The caller of
\* complete_job completes the first submitter's job.
SubmitterJobId(t) == IF t \in {"s1", Completer} THEN "j1" ELSE "j2"

NoLocals == [job |-> NoJob, initial_priority |-> 0, expired_jobs |-> <<>>,
             active_jobs |-> <<>>, return_to |-> "", snapshot |-> <<>>,
             result |-> None, old_count |-> 0, new_count |-> 0,
             size_seen |-> 0, size_to |-> "", call |-> "", calls |-> 0,
             thread |-> NoThread]

Init ==
    /\ now = 0
    /\ jobs = <<>>
    /\ job_lookup = <<>>
    /\ heap = <<>>
    /\ counter = 0
    /\ ret = [op |-> "init"]
    /\ lock = NoThread
    /\ pc = [t \in Threads |-> IF t \in Workers \ {Worker} THEN "unborn"
                                ELSE "start"]
    /\ local = [t \in Threads |-> NoLocals]
    /\ running = TRUE
    /\ aging_thread = Worker
    /\ status_change_callback = NoCallback
    /\ queue = <<>>
    /\ current_time = 0

\* The queue's fields after an operation that ran under the lock from its
\* first line to its last, within the bounds.
SetQueue(q) ==
    /\ UNCHANGED <<tvars, xvars>>
    /\ Len(q.jobs) <= MaxJobs
    /\ q.counter <= MaxCounter
    /\ jobs' = q.jobs
    /\ job_lookup' = q.job_lookup
    /\ heap' = q.heap
    /\ counter' = q.counter

SubmitJobFrom(job_ids, page_counts, priorities, aging_args, max_wait_args) ==
    \E job_id \in job_ids, user_id \in UserIds, document_name \in DocumentNames,
       pages \in page_counts, initial_priority \in priorities,
       aging_interval \in aging_args, max_wait_time \in max_wait_args :
        LET r == submit_job(Queue, job_id, user_id, document_name, pages,
                            initial_priority, aging_interval, max_wait_time,
                            now)
        IN  /\ SetQueue(r.q)
            /\ ret' = [op |-> "submit_job", job_id |-> job_id,
                       pages |-> pages,
                       initial_priority |-> initial_priority,
                       aging_interval |-> aging_interval,
                       val |-> r.result]
            /\ UNCHANGED now

SubmitJob ==
    SubmitJobFrom(JobIds, PageCounts, Priorities, AgingIntervalArgs,
                  MaxWaitArgs)

SubmitAnyJob ==
    SubmitJobFrom(AnyJobIds, AnyPageCounts, AnyPriorities,
                  AnyAgingIntervalArgs, AnyMaxWaitArgs)

GetNextJob ==
    LET r == get_next_job(Queue, now)
    IN  /\ SetQueue(r.q)
        /\ ret' = [op |-> "get_next_job", val |-> r.result]
        /\ UNCHANGED now

CompleteJob ==
    \E job_id \in JobIds :
        LET r == complete_job(Queue, job_id, now)
        IN  /\ SetQueue(r.q)
            /\ ret' = [op |-> "complete_job", job_id |-> job_id,
                       val |-> r.result]
            /\ UNCHANGED now

GetQueueStatus ==
    LET r == get_queue_status(Queue, now)
    IN  /\ SetQueue(r.q)
        /\ ret' = [op |-> "get_queue_status", val |-> r.result]
        /\ UNCHANGED now

\* One pass of _aging_worker: the snapshot is taken and dropped.
AgingWorker ==
    LET r == get_queue_snapshot(Queue, now)
    IN  /\ SetQueue(r.q)
        /\ ret' = [op |-> "aging_worker"]
        /\ UNCHANGED now

\* The clock advances between operations.
Tick ==
    /\ now < MaxTime
    /\ now' = now + 1
    /\ ret' = [op |-> "tick"]
    /\ UNCHANGED <<qvars, tvars, xvars>>

Next ==
    \/ SubmitJob
    \/ GetNextJob
    \/ CompleteJob
    \/ GetQueueStatus
    \/ AgingWorker
    \/ Tick

Spec == Init /\ [][Next]_vars

\* The same manager, called with arbitrary submit_job arguments.
NextAnyInput ==
    \/ SubmitAnyJob
    \/ GetNextJob
    \/ CompleteJob
    \/ GetQueueStatus
    \/ AgingWorker
    \/ Tick

SpecAnyInput == Init /\ [][NextAnyInput]_vars

(* ----------------------- integration_interface.py --------------------- *)
(* PrintQueueIntegration: each method is one call into the manager, which *)
(* runs under the manager's lock.                                         *)

\* A batch of submit_simultaneous_jobs holds at most MaxBatch payloads.
MaxBatch == 2

\* The optional priority of enqueue_job and of a payload.
FacadePriorityArgs == {NoArg, Arg(4)}

\* The payloads of submit_simultaneous_jobs: dicts with or without the
\* 'priority' key.
PayloadPriorityArgs == {NoArg}
Payloads == [job_id : JobIds, user_id : UserIds,
             document_name : DocumentNames, pages : PageCounts,
             priority : PayloadPriorityArgs]

JobLists == UNION {[1..n -> Payloads] : n \in 0..MaxBatch}

\* A parameter's default value, and dict.get(key, default).
DefaultArg(x, default) == IF x = NoArg THEN default ELSE x[1]

\* enqueue_job: [q, result].
enqueue_job(q, job_id, user_id, document_name, pages, priority, t) ==
    submit_job(q, job_id, user_id, document_name, pages,
               DefaultArg(priority, 1), NoArg, NoArg, t)

dequeue_job(q, t) == get_next_job(q, t)

\* get_job_metadata: [q, result]; job_id is NoArg for all jobs.
get_job_metadata(q, job_id, t) ==
    LET r == get_queue_status(q, t)
        Named(job) == job.job_id = job_id[1]
        found == SelectSeq(r.result.jobs, Named)
    IN  [q |-> r.q,
         result |-> IF job_id = NoArg THEN r.result
                    ELSE IF found # <<>> THEN Head(found) ELSE None]

\* cleanup_expired_jobs of the facade, with no other thread running:
\* [q, result].
facade_cleanup_expired_jobs(q, t) ==
    LET old_count == size(q)
        r == get_queue_status(q, t)
        new_count == size(r.q)
    IN  [q |-> r.q, result |-> old_count - new_count]

\* submit_simultaneous_jobs from the payload at position k on:
\* [q, result], result the dict results as a function of job_id.
RECURSIVE submit_simultaneous_jobs_from(_, _, _, _, _)
submit_simultaneous_jobs_from(q, job_list, k, results, t) ==
    IF k > Len(job_list) THEN [q |-> q, result |-> results]
    ELSE LET job_data == job_list[k]
             r == submit_job(q, job_data.job_id, job_data.user_id,
                             job_data.document_name, job_data.pages,
                             DefaultArg(job_data.priority, 1), NoArg, NoArg,
                             t)
         IN  submit_simultaneous_jobs_from(
                 r.q, job_list, k + 1,
                 (job_data.job_id :> r.result) @@ results, t)

submit_simultaneous_jobs(q, job_list, t) ==
    submit_simultaneous_jobs_from(q, job_list, 1, <<>>, t)

\* handle_tick_event: [q, result, called], called the callbacks it invoked.
handle_tick_event(q, callback, t) ==
    LET r == get_queue_status(q, t)
    IN  [q |-> r.q, result |-> r.result,
         called |-> IF callback # NoCallback THEN <<callback>> ELSE <<>>]

get_visualization_data(q, t) ==
    LET r == get_queue_status(q, t)
        status == r.result
    IN  [q |-> r.q,
         result |-> [queue_snapshot |-> status.jobs,
                     statistics |->
                       [total_jobs |-> status.total_jobs,
                        average_wait_time |-> status.avg_wait_time,
                        priority_distribution |->
                          status.priority_distribution],
                     queue_order |-> [k \in 1..Len(status.jobs) |->
                                        status.jobs[k].job_id],
                     timestamp |-> "now"]]

get_print_order_report(q, t) ==
    LET r == get_queue_status(q, t)
    IN  [q |-> r.q, result |-> r.result.jobs]

get_system_health(q, t) ==
    LET r == get_queue_status(q, t)
    IN  [q |-> r.q,
         result |-> [status |-> "healthy", queue_size |-> r.result.total_jobs,
                     aging_system_running |-> TRUE,
                     memory_usage |-> "normal", thread_safety |-> TRUE]]

\* A facade method returned r; called are the callbacks it invoked.
FacadeReturn(op, r, called) ==
    /\ SetQueue(r.q)
    /\ ret' = [op |-> op, val |-> r.result, called |-> called]
    /\ UNCHANGED now

EnqueueJob ==
    \E job_id \in JobIds, user_id \in UserIds, document_name \in DocumentNames,
       pages \in PageCounts, priority \in FacadePriorityArgs :
        LET r == enqueue_job(Queue, job_id, user_id, document_name, pages,
                             priority, now)
        IN  /\ SetQueue(r.q)
            /\ ret' = [op |-> "enqueue_job", job_id |-> job_id,
                       val |-> r.result, called |-> <<>>]
            /\ UNCHANGED now

DequeueJob == FacadeReturn("dequeue_job", dequeue_job(Queue, now), <<>>)

GetJobMetadata ==
    \E job_id \in {NoArg} \cup {Arg(id) : id \in JobIds} :
        FacadeReturn("get_job_metadata", get_job_metadata(Queue, job_id, now),
                     <<>>)

CleanupExpiredJobs ==
    FacadeReturn("cleanup_expired_jobs",
                 facade_cleanup_expired_jobs(Queue, now), <<>>)

SubmitSimultaneousJobs ==
    \E job_list \in JobLists :
        LET r == submit_simultaneous_jobs(Queue, job_list, now)
        IN  /\ SetQueue(r.q)
            /\ ret' = [op |-> "submit_simultaneous_jobs",
                       job_list |-> job_list, val |-> r.result,
                       called |-> <<>>]
            /\ UNCHANGED now

HandleTickEvent ==
    LET r == handle_tick_event(Queue, status_change_callback, now)
    IN  FacadeReturn("handle_tick_event", r, r.called)

GetVisualizationData ==
    FacadeReturn("get_visualization_data", get_visualization_data(Queue, now),
                 <<>>)

GetPrintOrderReport ==
    FacadeReturn("get_print_order_report", get_print_order_report(Queue, now),
                 <<>>)

GetSystemHealth ==
    FacadeReturn("get_system_health", get_system_health(Queue, now), <<>>)

RegisterStatusCallback ==
    \E callback \in Callbacks :
        /\ status_change_callback' = callback
        /\ ret' = [op |-> "register_status_callback", val |-> None,
                   called |-> <<>>]
        /\ UNCHANGED <<now, qvars, tvars, running, aging_thread, queue,
                       current_time>>

NextFacade ==
    \/ EnqueueJob
    \/ DequeueJob
    \/ GetJobMetadata
    \/ CleanupExpiredJobs
    \/ SubmitSimultaneousJobs
    \/ HandleTickEvent
    \/ GetVisualizationData
    \/ GetPrintOrderReport
    \/ GetSystemHealth
    \/ RegisterStatusCallback
    \/ Tick

SpecFacade == Init /\ [][NextFacade]_vars

(* ------------------------------ threads ------------------------------- *)
(* The same methods a statement at a time, each thread taking             *)
(* PriorityManager._lock first: two submit_job callers, one               *)
(* get_queue_status caller that starts once both have returned, and       *)
(* _aging_worker.                                                         *)

\* A thread may enter `with self._lock` (an RLock).
LockFree_unguarded(t) == TRUE

LockFree(t) == lock \in {NoThread, t}

Acquire(t) == LockFree(t) /\ lock' = t
Release(t) == lock' = NoThread

Goto(t, label) == pc' = [pc EXCEPT ![t] = label]

\* self._job_lookup[job.job_id] = job
dict_set(q, i) ==
    LET Same(k) == q.jobs[q.job_lookup[k]].job_id = q.jobs[i].job_id
    IN  IF \E k \in 1..Len(q.job_lookup) : Same(k)
        THEN [k \in 1..Len(q.job_lookup) |->
                IF Same(k) THEN i ELSE q.job_lookup[k]]
        ELSE Append(q.job_lookup, i)

\* submit_job, line 38: with self._lock.
SubmitEnter(t) ==
    /\ pc[t] = "start"
    /\ Acquire(t)
    /\ \E initial_priority \in Priorities :
           local' = [local EXCEPT ![t].initial_priority = initial_priority]
    /\ Goto(t, "submit_new")
    /\ UNCHANGED <<xvars, now, qvars, ret>>

\* submit_job, lines 39-50: the PriorityJob is constructed.
SubmitNew(t) ==
    /\ pc[t] = "submit_new"
    /\ \E user_id \in UserIds, document_name \in DocumentNames,
          pages \in PageCounts :
           jobs' = Append(jobs,
                     PriorityJob(SubmitterJobId(t), user_id, document_name,
                                 pages, local[t].initial_priority,
                                 OrDefault(NoArg, default_aging_interval),
                                 OrDefault(NoArg, default_max_wait), now))
    /\ local' = [local EXCEPT ![t].job = Len(jobs) + 1]
    /\ Goto(t, "add_check")
    /\ UNCHANGED <<xvars, now, job_lookup, heap, counter, ret, lock>>

\* add_job, lines 16-17.
AddCheck(t) ==
    /\ pc[t] = "add_check"
    /\ IF HasJobId(Queue, jobs[local[t].job].job_id)
       THEN /\ local' = [local EXCEPT ![t].result = FALSE]
            /\ Goto(t, "submit_exit")
       ELSE /\ Goto(t, "add_push")
            /\ UNCHANGED local
    /\ UNCHANGED <<xvars, now, qvars, ret, lock>>

\* add_job, lines 21-22.
AddPush(t) ==
    /\ pc[t] = "add_push"
    /\ heap' = heappush(heap, [key |-> priority_key(Queue, local[t].job, now),
                               job |-> local[t].job])
    /\ Goto(t, "add_lookup")
    /\ UNCHANGED <<xvars, now, jobs, job_lookup, counter, ret, lock, local>>

\* add_job, line 24.
AddLookup(t) ==
    /\ pc[t] = "add_lookup"
    /\ job_lookup' = dict_set(Queue, local[t].job)
    /\ Goto(t, "add_counter")
    /\ UNCHANGED <<xvars, now, jobs, heap, counter, ret, lock, local>>

\* add_job, lines 25-26.
AddCounter(t) ==
    /\ pc[t] = "add_counter"
    /\ counter' = counter + 1
    /\ local' = [local EXCEPT ![t].result = TRUE]
    /\ Goto(t, "submit_exit")
    /\ UNCHANGED <<xvars, now, jobs, job_lookup, heap, ret, lock>>

\* submit_job returns and leaves the with block.
SubmitExit(t) ==
    /\ pc[t] = "submit_exit"
    /\ Release(t)
    /\ Goto(t, "done")
    /\ UNCHANGED <<xvars, now, qvars, ret, local>>

\* get_queue_status, line 77, called after every submit_job has returned.
ReaderEnter(t) ==
    /\ pc[t] = "start"
    /\ \A s \in Submitters : pc[s] = "done"
    /\ counter + Len(job_lookup) <= MaxCounterThreads
    /\ Acquire(t)
    /\ Goto(t, "cleanup_scan")
    /\ UNCHANGED <<xvars, now, qvars, ret, local>>

\* _aging_worker, lines 110-111: the sleep ends, with self._lock.  A pass
\* that has nothing to sweep starts only while _counter leaves room.
WorkerWake(t) ==
    /\ pc[t] = "start"
    /\ \/ counter + Len(job_lookup) <= MaxCounterThreads
       \/ expired_scan(Queue, now) # <<>>
    /\ Acquire(t)
    /\ Goto(t, "cleanup_scan")
    /\ UNCHANGED <<xvars, now, qvars, ret, local>>

\* _cleanup_expired_jobs, lines 53-57.
CleanupScan(t) ==
    /\ pc[t] = "cleanup_scan"
    /\ LET expired_jobs == expired_scan(Queue, now)
       IN  /\ jobs' = mark_expired(Queue, expired_jobs).jobs
           /\ local' = [local EXCEPT ![t].expired_jobs = expired_jobs]
           /\ Goto(t, IF expired_jobs = <<>> THEN "rebalance"
                      ELSE "cleanup_delete")
    /\ UNCHANGED <<xvars, now, job_lookup, heap, counter, ret, lock>>

\* _cleanup_expired_jobs, lines 59-63.
CleanupDelete(t) ==
    /\ pc[t] = "cleanup_delete"
    /\ job_lookup' = delete_jobs(Queue, local[t].expired_jobs).job_lookup
    /\ local' = [local EXCEPT ![t].return_to = "rebalance"]
    /\ Goto(t, "rebuild_list")
    /\ UNCHANGED <<xvars, now, jobs, heap, counter, ret, lock>>

\* _rebalance_priorities, lines 67-76.
Rebalance(t) ==
    /\ pc[t] = "rebalance"
    /\ LET needs_rebalance ==
               \E k \in 1..Len(heap) : jobs[heap[k].job].status = PENDING
       IN  IF needs_rebalance
           THEN /\ local' = [local EXCEPT ![t].return_to = "snapshot"]
                /\ Goto(t, "rebuild_list")
           ELSE /\ Goto(t, "snapshot")
                /\ UNCHANGED local
    /\ UNCHANGED <<xvars, now, qvars, ret, lock>>

\* _rebuild_heap, lines 80-81.
RebuildList(t) ==
    /\ pc[t] = "rebuild_list"
    /\ LET Active(i) == IsPending(Queue, i)
       IN  local' = [local EXCEPT
                       ![t].active_jobs = SelectSeq(job_lookup, Active)]
    /\ Goto(t, "rebuild_clear")
    /\ UNCHANGED <<xvars, now, qvars, ret, lock>>

\* _rebuild_heap, line 83.
RebuildClear(t) ==
    /\ pc[t] = "rebuild_clear"
    /\ heap' = <<>>
    /\ Goto(t, IF local[t].active_jobs = <<>> THEN local[t].return_to
               ELSE "rebuild_push")
    /\ UNCHANGED <<xvars, now, jobs, job_lookup, counter, ret, lock, local>>

\* _rebuild_heap, lines 84-87: one pass of the loop.
RebuildPush(t) ==
    /\ pc[t] = "rebuild_push"
    /\ LET q == push_job(Queue, Head(local[t].active_jobs), now)
       IN  heap' = q.heap /\ counter' = q.counter
    /\ local' = [local EXCEPT ![t].active_jobs = Tail(local[t].active_jobs)]
    /\ Goto(t, IF Tail(local[t].active_jobs) = <<>> THEN local[t].return_to
               ELSE "rebuild_push")
    /\ UNCHANGED <<xvars, now, jobs, job_lookup, ret, lock>>

\* get_queue_snapshot, lines 94-108.
Snapshot(t) ==
    /\ pc[t] = "snapshot"
    /\ local' = [local EXCEPT ![t].snapshot = snapshot_of(Queue, now)]
    /\ Goto(t, IF t \in Workers THEN "worker_exit" ELSE "status")
    /\ UNCHANGED <<xvars, now, qvars, ret, lock>>

\* get_queue_status, lines 80-101, and the end of its with block.
StatusExit(t) ==
    /\ pc[t] = "status"
    /\ local' = [local EXCEPT ![t].result = status_of(local[t].snapshot)]
    /\ Release(t)
    /\ Goto(t, IF t = Cleaner THEN "new_count" ELSE "done")
    /\ UNCHANGED <<xvars, now, qvars, ret>>

\* _aging_worker: the with block ends, back to the test of line 109.
WorkerExit(t) ==
    /\ pc[t] = "worker_exit"
    /\ Release(t)
    /\ Goto(t, "loop")
    /\ UNCHANGED <<xvars, now, qvars, ret, local>>

\* _aging_worker whose loop ends after one pass.
WorkerLoop_once(t) ==
    /\ pc[t] = "loop"
    /\ Goto(t, "dead")
    /\ UNCHANGED <<xvars, now, qvars, ret, lock, local>>

\* _aging_worker, line 109: while self._running; the thread ends when the
\* test fails, and sleeps (line 110) when it holds.
WorkerLoop(t) ==
    /\ pc[t] = "loop"
    /\ Goto(t, IF running THEN "start" ELSE "dead")
    /\ UNCHANGED <<xvars, now, qvars, ret, lock, local>>

\* The clock advances between any two statements.
TickThreads ==
    /\ now < MaxTime
    /\ now' = now + 1
    /\ UNCHANGED <<qvars, ret, tvars, xvars>>

NextThreads ==
    \/ \E t \in Submitters :
           \/ SubmitEnter(t)
           \/ SubmitNew(t)
           \/ AddCheck(t)
           \/ AddPush(t)
           \/ AddLookup(t)
           \/ AddCounter(t)
           \/ SubmitExit(t)
    \/ ReaderEnter(Reader)
    \/ StatusExit(Reader)
    \/ WorkerWake(Worker)
    \/ WorkerExit(Worker)
    \/ WorkerLoop(Worker)
    \/ \E t \in {Reader, Worker} :
           \/ CleanupScan(t)
           \/ CleanupDelete(t)
           \/ Rebalance(t)
           \/ RebuildList(t)
           \/ RebuildClear(t)
           \/ RebuildPush(t)
           \/ Snapshot(t)
    \/ TickThreads

SpecThreads == Init /\ [][NextThreads]_vars

(* cleanup_expired_jobs of the facade and complete_job, a statement at a   *)
(* time, beside one submit_job caller and _aging_worker.                  *)

\* size(), line 113: the generator starts to iterate
\* self._job_lookup.values(); the dict's size is noted.
SizeStart(t, from, to) ==
    /\ pc[t] = from
    /\ local' = [local EXCEPT ![t].size_seen = Len(job_lookup),
                              ![t].size_to = to]
    /\ Goto(t, "size_iter")
    /\ UNCHANGED <<xvars, now, qvars, ret, lock>>

\* cleanup_expired_jobs, line 56: old_count = self.priority_manager.queue.size().
CleanerOldCount(t) == SizeStart(t, "start", "old_count")

\* cleanup_expired_jobs, line 58: new_count = self.priority_manager.queue.size().
CleanerNewCount(t) == SizeStart(t, "new_count", "return")

\* size(), line 113: the iteration.  A dict that changed size since the
\* iteration started raises RuntimeError; otherwise the Pending values are
\* counted.  Line 59 follows the second count.
SizeIterate(t) ==
    /\ pc[t] = "size_iter"
    /\ IF Len(job_lookup) # local[t].size_seen
       THEN /\ Goto(t, "raised")
            /\ UNCHANGED local
       ELSE IF local[t].size_to = "old_count"
       THEN /\ local' = [local EXCEPT ![t].old_count = size(Queue)]
            /\ Goto(t, "status_enter")
       ELSE /\ local' = [local EXCEPT
                           ![t].new_count = size(Queue),
                           ![t].result = local[t].old_count - size(Queue)]
            /\ Goto(t, "done")
    /\ UNCHANGED <<xvars, now, qvars, ret, lock>>

\* cleanup_expired_jobs, line 57: get_queue_status, with self._lock.
CleanerEnter(t) ==
    /\ pc[t] = "status_enter"
    /\ counter + Len(job_lookup) <= MaxCounterThreads
    /\ Acquire(t)
    /\ Goto(t, "cleanup_scan")
    /\ UNCHANGED <<xvars, now, qvars, ret, local>>

\* complete_job, line 71: with self._lock.
CompleteEnter(t) ==
    /\ pc[t] = "start"
    /\ Acquire(t)
    /\ Goto(t, "remove_check")
    /\ UNCHANGED <<xvars, now, qvars, ret, local>>

\* remove_job, lines 41-42.
RemoveCheck(t) ==
    /\ pc[t] = "remove_check"
    /\ IF ~HasJobId(Queue, SubmitterJobId(t))
       THEN /\ local' = [local EXCEPT ![t].result = FALSE]
            /\ Goto(t, "complete_exit")
       ELSE /\ Goto(t, "remove_pop")
            /\ UNCHANGED local
    /\ UNCHANGED <<xvars, now, qvars, ret, lock>>

\* remove_job, line 44: job = self._job_lookup.pop(job_id).
RemovePop(t) ==
    /\ pc[t] = "remove_pop"
    /\ LET i == CHOOSE i \in 1..Len(jobs) :
                   /\ jobs[i].job_id = SubmitterJobId(t)
                   /\ \E k \in 1..Len(job_lookup) : job_lookup[k] = i
           Others(j) == j # i
       IN  /\ job_lookup' = SelectSeq(job_lookup, Others)
           /\ local' = [local EXCEPT ![t].job = i]
    /\ Goto(t, "remove_status")
    /\ UNCHANGED <<xvars, now, jobs, heap, counter, ret, lock>>

\* remove_job, lines 45-48: the job is Completed, then _rebuild_heap.
RemoveStatus(t) ==
    /\ pc[t] = "remove_status"
    /\ jobs' = [jobs EXCEPT ![local[t].job].status = COMPLETED]
    /\ local' = [local EXCEPT ![t].return_to = "complete_exit",
                              ![t].result = TRUE]
    /\ Goto(t, "rebuild_list")
    /\ UNCHANGED <<xvars, now, job_lookup, heap, counter, ret, lock>>

\* complete_job returns and leaves the with block.
CompleteExit(t) ==
    /\ pc[t] = "complete_exit"
    /\ Release(t)
    /\ Goto(t, "done")
    /\ UNCHANGED <<xvars, now, qvars, ret, local>>

NextCleanup ==
    \/ \E t \in {"s1"} :
           \/ SubmitEnter(t)
           \/ SubmitNew(t)
           \/ AddCheck(t)
           \/ AddPush(t)
           \/ AddLookup(t)
           \/ AddCounter(t)
           \/ SubmitExit(t)
    \/ CleanerOldCount(Cleaner)
    \/ CleanerEnter(Cleaner)
    \/ StatusExit(Cleaner)
    \/ CleanerNewCount(Cleaner)
    \/ SizeIterate(Cleaner)
    \/ CompleteEnter(Completer)
    \/ RemoveCheck(Completer)
    \/ RemovePop(Completer)
    \/ RemoveStatus(Completer)
    \/ CompleteExit(Completer)
    \/ WorkerWake(Worker)
    \/ WorkerExit(Worker)
    \/ WorkerLoop(Worker)
    \/ \E t \in {Cleaner, Worker} :
           \/ CleanupScan(t)
           \/ CleanupDelete(t)
           \/ Rebalance(t)
           \/ Snapshot(t)
    \/ \E t \in {Cleaner, Worker, Completer} :
           \/ RebuildList(t)
           \/ RebuildClear(t)
           \/ RebuildPush(t)
    \/ TickThreads

SpecCleanup == Init /\ [][NextCleanup]_vars

(* start_aging_system and stop_aging_system, a statement at a time, on a   *)
(* PriorityManager that was constructed without the facade.               *)

\* Each caller makes at most MaxCalls calls.
MaxCalls == 2

\* PriorityManager.__init__: nothing runs yet.
InitLifecycle ==
    /\ now = 0
    /\ jobs = <<>>
    /\ job_lookup = <<>>
    /\ heap = <<>>
    /\ counter = 0
    /\ ret = [op |-> "init"]
    /\ lock = NoThread
    /\ pc = [t \in Threads |-> IF t \in Workers THEN "unborn" ELSE "start"]
    /\ local = [t \in Threads |-> NoLocals]
    /\ running = FALSE
    /\ aging_thread = NoThread
    /\ status_change_callback = NoCallback
    /\ queue = <<>>
    /\ current_time = 0

\* A start_aging_system call is between its first and its last statement.
Starting(t) == pc[t] \in {"start_set", "start_create", "start_run"}

\* start_aging_system, line 22: if not self._running.
StartCheck(t) ==
    /\ pc[t] = "start"
    /\ local[t].calls < MaxCalls
    /\ local' = [local EXCEPT ![t].calls = local[t].calls + 1]
    /\ Goto(t, IF running THEN "start" ELSE "start_set")
    /\ ret' = [op |-> "start_aging_system"]
    /\ UNCHANGED <<xvars, now, qvars, lock>>

\* start_aging_system, line 23.
StartSet(t) ==
    /\ pc[t] = "start_set"
    /\ running' = TRUE
    /\ Goto(t, "start_create")
    /\ UNCHANGED <<now, qvars, ret, lock, local, aging_thread,
                   status_change_callback, queue, current_time>>

\* start_aging_system, line 24: a new Thread object.
StartCreate(t) ==
    /\ pc[t] = "start_create"
    /\ \E w \in Workers :
          /\ pc[w] = "unborn"
          /\ aging_thread' = w
          /\ pc' = [pc EXCEPT ![t] = "start_run", ![w] = "created"]
    /\ UNCHANGED <<now, qvars, ret, lock, local, running,
                   status_change_callback, queue, current_time>>

\* start_aging_system, line 25: self._aging_thread.start(); the thread
\* begins _aging_worker at the test of line 109.
StartRun(t) ==
    /\ pc[t] = "start_run"
    /\ IF pc[aging_thread] = "created"
       THEN pc' = [pc EXCEPT ![t] = "start", ![aging_thread] = "loop"]
       ELSE Goto(t, "raised")
    /\ UNCHANGED <<xvars, now, qvars, ret, lock, local>>

\* stop_aging_system, line 29.
StopSet(t) ==
    /\ pc[t] = "start"
    /\ local[t].calls < MaxCalls
    /\ local' = [local EXCEPT ![t].calls = local[t].calls + 1]
    /\ running' = FALSE
    /\ Goto(t, "stop_test")
    /\ ret' = [op |-> "stop_aging_system", returned |-> FALSE,
               quiet |-> \A c \in Controllers : ~Starting(c)]
    /\ UNCHANGED <<now, qvars, lock, aging_thread,
                   status_change_callback, queue, current_time>>

\* stop_aging_system returns.  ret.quiet records that no
\* start_aging_system call has run any statement since the stop call
\* began.
StopReturn(t) ==
    /\ Goto(t, "start")
    /\ ret' = [op |-> "stop_aging_system", returned |-> TRUE,
               quiet |-> /\ ret.op = "stop_aging_system"
                         /\ ret.quiet
                         /\ \A c \in Controllers : ~Starting(c)]

\* stop_aging_system, line 30: if self._aging_thread.
StopTest(t) ==
    /\ pc[t] = "stop_test"
    /\ IF aging_thread = NoThread
       THEN StopReturn(t)
       ELSE Goto(t, "stop_join") /\ UNCHANGED ret
    /\ UNCHANGED <<xvars, now, qvars, lock, local>>

\* stop_aging_system, line 31: self._aging_thread.join() is called; a
\* thread that was not started raises RuntimeError.
StopJoin(t) ==
    /\ pc[t] = "stop_join"
    /\ local' = [local EXCEPT ![t].thread = aging_thread]
    /\ Goto(t, IF pc[aging_thread] = "created" THEN "raised" ELSE "stop_wait")
    /\ UNCHANGED <<xvars, now, qvars, ret, lock>>

\* join() returns once the thread has ended.
StopJoined(t) ==
    /\ pc[t] = "stop_wait"
    /\ pc[local[t].thread] = "dead"
    /\ StopReturn(t)
    /\ UNCHANGED <<xvars, now, qvars, lock, local>>

NextLifecycle ==
    \/ \E t \in Controllers :
           \/ StartCheck(t)
           \/ StartSet(t)
           \/ StartCreate(t)
           \/ StartRun(t)
           \/ StopSet(t)
           \/ StopTest(t)
           \/ StopJoin(t)
           \/ StopJoined(t)
    \/ \E t \in Workers :
           \/ WorkerLoop(t)
           \/ WorkerWake(t)
           \/ CleanupScan(t)
           \/ Rebalance(t)
           \/ Snapshot(t)
           \/ WorkerExit(t)

SpecLifecycle == InitLifecycle /\ [][NextLifecycle]_vars

\* The statements of a method after its `with self._lock`.
Inside(t) ==
    \/ SubmitNew(t)
    \/ AddCheck(t)
    \/ AddPush(t)
    \/ AddLookup(t)
    \/ AddCounter(t)
    \/ SubmitExit(t)
    \/ CleanupScan(t)
    \/ CleanupDelete(t)
    \/ Rebalance(t)
    \/ RebuildList(t)
    \/ RebuildClear(t)
    \/ RebuildPush(t)
    \/ Snapshot(t)
    \/ StatusExit(t)

\* The statements of _aging_worker.
WorkerNext(t) ==
    \/ WorkerWake(t)
    \/ WorkerExit(t)
    \/ WorkerLoop(t)
    \/ Inside(t)

\* The scheduler runs the aging thread again and again, and a thread that
\* is inside a with block gets to leave it; no caller has to call anything.
LiveThreads ==
    /\ SpecThreads
    /\ WF_vars(WorkerNext(Worker))
    /\ \A t \in Submitters \cup {Reader} : WF_vars(Inside(t))

(* ------------------------ print_queue_manager.py ---------------------- *)
(* The tick-driven PrintQueueManager: a list re-sorted on every enqueue   *)
(* and every tick.                                                        *)

\* current_time never exceeds MaxTicks.
MaxTicks == 4

\* PrintQueueManager(aging_interval=2, expiry_time=3, capacity=3): the
\* constructor arguments of the instance under study.
tick_aging_interval == 2
expiry_time == 3
capacity == 3

\* The arguments of enqueue_job.
TickJobIds == {"j1", "j2"}
TickPriorities == {1, 2}

\* The key of _resort: (-priority, waiting_time).
ResortKeyLess(a, b) ==
    \/ 0 - a.priority < 0 - b.priority
    \/ a.priority = b.priority /\ a.waiting_time < b.waiting_time

\* list.sort is stable: x goes behind every element that is not greater.
RECURSIVE stable_insert(_, _)
stable_insert(l, x) ==
    IF l = <<>> THEN <<x>>
    ELSE IF ResortKeyLess(x, Head(l)) THEN <<x>> \o l
    ELSE <<Head(l)>> \o stable_insert(Tail(l), x)

RECURSIVE resort(_)
resort(l) == IF l = <<>> THEN <<>>
             ELSE stable_insert(resort(SubSeq(l, 1, Len(l) - 1)), l[Len(l)])

\* enqueue_job: [queue, result].
pqm_enqueue_job(l, user_id, job_id, priority) ==
    IF Len(l) >= capacity
    THEN [queue |-> l, result |-> FALSE]
    ELSE [queue |-> resort(Append(l, [user_id |-> user_id, job_id |-> job_id,
                                      priority |-> priority,
                                      waiting_time |-> 0, last_aged |-> 0])),
          result |-> TRUE]

apply_priority_aging(l) ==
    IF tick_aging_interval = 0 THEN l
    ELSE [k \in 1..Len(l) |->
            IF l[k].waiting_time - l[k].last_aged >= tick_aging_interval
            THEN [l[k] EXCEPT !.priority = l[k].priority + 1,
                              !.last_aged = l[k].waiting_time]
            ELSE l[k]]

remove_expired_jobs(l) ==
    LET Kept(job) == job.waiting_time < expiry_time
    IN  IF expiry_time = 0 THEN l ELSE SelectSeq(l, Kept)

\* The queue after tick().
pqm_tick(l) ==
    LET waited == [k \in 1..Len(l) |->
                     [l[k] EXCEPT !.waiting_time = l[k].waiting_time + 1]]
    IN  resort(remove_expired_jobs(apply_priority_aging(waited)))

PQMEnqueueJob ==
    \E user_id \in UserIds, job_id \in TickJobIds, priority \in TickPriorities :
        LET r == pqm_enqueue_job(queue, user_id, job_id, priority)
        IN  /\ queue' = r.queue
            /\ ret' = [op |-> "enqueue_job", job_id |-> job_id,
                       val |-> r.result]
            /\ UNCHANGED <<now, qvars, tvars, running, aging_thread,
                           status_change_callback, current_time>>

PQMTick ==
    /\ current_time < MaxTicks
    /\ current_time' = current_time + 1
    /\ queue' = pqm_tick(queue)
    /\ ret' = [op |-> "tick"]
    /\ UNCHANGED <<now, qvars, tvars, running, aging_thread,
                   status_change_callback>>

NextTickDriven ==
    \/ PQMEnqueueJob
    \/ PQMTick

SpecTickDriven == Init /\ [][NextTickDriven]_vars

(* ------------------------------ claims -------------------------------- *)

QueueNext == [jobs |-> jobs', job_lookup |-> job_lookup', heap |-> heap',
              counter |-> counter']

IsRead(r) == r.op \in {"get_next_job", "get_queue_status"}

\* The job_ids a read returned.
ReturnedIds(r) ==
    IF r.op = "get_queue_status"
    THEN {r.val.jobs[k].job_id : k \in 1..Len(r.val.jobs)}
    ELSE IF r.op = "get_next_job" /\ r.val # None
    THEN {r.val.job_id}
    ELSE {}

\* The job_ids a read issued in state (q, t) would return.
ReadableIds(q, t) ==
    ReturnedIds([op |-> "get_queue_status",
                 val |-> get_queue_status(q, t).result])
      \cup ReturnedIds([op |-> "get_next_job",
                        val |-> get_next_job(q, t).result])

\* The ids of the jobs in the index (the lookup map).
IndexIds == {jobs[job_lookup[k]].job_id : k \in 1..Len(job_lookup)}

C2_ExpiredNeverReturned ==
    [][IsRead(ret') =>
         \A i \in 1..Len(jobs) :
             (jobs[i].status = PENDING
                /\ now' - jobs[i].created_at > jobs[i].max_wait_time)
             => jobs[i].job_id \notin ReturnedIds(ret')]_vars

\* A status read that swept a job nobody completed and returned another.
C2_Witness ==
    /\ ret.op = "get_queue_status"
    /\ Len(ret.val.jobs) = 1
    /\ \E i \in 1..Len(jobs) :
           /\ jobs[i].status = EXPIRED
           /\ jobs[i].job_id \notin ReturnedIds(ret)
           /\ now - jobs[i].created_at > jobs[i].max_wait_time

\* C4: submit_job with a job_id that is in the index returns false and
\* changes neither the job objects, nor the lookup, nor the heap.
C4_DuplicateRejected ==
    [][(ret'.op = "submit_job" /\ ret'.job_id \in IndexIds)
         => /\ ret'.val = FALSE
            /\ UNCHANGED qvars]_vars

\* A rejected submit whose priority differs from the original job's.
C4_Witness ==
    /\ ret.op = "submit_job"
    /\ ret.val = FALSE
    /\ \E k \in 1..Len(job_lookup) :
           /\ jobs[job_lookup[k]].job_id = ret.job_id
           /\ jobs[job_lookup[k]].initial_priority # ret.initial_priority
           /\ jobs[job_lookup[k]].created_at < now

\* C5 as stated: no read returns the job_id of a job that complete_job
\* completed.
C5_CompletedIdNeverReturned ==
    IsRead(ret) =>
        \A i \in 1..Len(jobs) :
            jobs[i].status = COMPLETED
            => jobs[i].job_id \notin ReturnedIds(ret)

\* C5 as amended: once complete_job(id) has returned true no read returns
\* that job_id, until a submit_job of that id is accepted.  Stepwise: a
\* successful complete_job leaves the id unreadable, and an unreadable id
\* stays unreadable over every step but an accepted submit_job of it.
C5_CompletedUntilResubmitted ==
    [][\A id \in JobIds :
         /\ (ret'.op = "complete_job" /\ ret'.job_id = id /\ ret'.val)
            => id \notin ReadableIds(QueueNext, now')
         /\ (/\ id \notin ReadableIds(Queue, now)
             /\ ~(ret'.op = "submit_job" /\ ret'.job_id = id /\ ret'.val))
            => id \notin ReadableIds(QueueNext, now')]_vars

\* A status read that returns the other job and not the completed one.
C5_Witness ==
    /\ ret.op = "get_queue_status"
    /\ Len(ret.val.jobs) = 1
    /\ \E i \in 1..Len(jobs) :
           /\ jobs[i].status = COMPLETED
           /\ jobs[i].job_id \notin ReturnedIds(ret)

\* C6: size() equals the number of jobs get_queue_status returns at the
\* same moment.
C6_SizeIsStatusCount ==
    size(Queue) = Len(get_queue_status(Queue, now).result.jobs)

\* C8: a job leaves Pending only for Completed, by complete_job of its id,
\* or for Expired, by the sweep of a read or of the aging worker; a
\* Completed or Expired job never changes again and is in neither the
\* lookup nor the heap.
C8_Lifecycle ==
    [][/\ Len(jobs') >= Len(jobs)
       /\ \A i \in 1..Len(jobs') :
            /\ i > Len(jobs) => jobs'[i].status = PENDING
            /\ (i <= Len(jobs) /\ jobs[i].status # PENDING)
               => jobs'[i] = jobs[i]
            /\ (i <= Len(jobs) /\ jobs[i].status = PENDING
                  /\ jobs'[i].status # PENDING)
               => \/ /\ jobs'[i].status = COMPLETED
                     /\ ret'.op = "complete_job"
                     /\ ret'.job_id = jobs[i].job_id
                     /\ ret'.val
                  \/ /\ jobs'[i].status = EXPIRED
                     /\ ret'.op \in {"get_next_job", "get_queue_status",
                                     "aging_worker"}
                     /\ is_expired(jobs[i], now')
            /\ jobs'[i].status # PENDING
               => /\ \A k \in 1..Len(job_lookup') : job_lookup'[k] # i
                  /\ \A k \in 1..Len(heap') : heap'[k].job # i]_vars

\* One job expired and another completed.
C8_Witness ==
    /\ \E i \in 1..Len(jobs) : jobs[i].status = EXPIRED
    /\ \E i \in 1..Len(jobs) : jobs[i].status = COMPLETED

\* C10: complete_job(id) returns true exactly when a Pending job with that
\* id is in the index; when it returns false nothing changes.
C10_CompleteIffPending ==
    [][ret'.op = "complete_job" =>
         /\ ret'.val = (\E k \in 1..Len(job_lookup) :
                          /\ jobs[job_lookup[k]].job_id = ret'.job_id
                          /\ jobs[job_lookup[k]].status = PENDING)
         /\ ~ret'.val => UNCHANGED qvars]_vars

\* complete_job of an already completed id returned false while another
\* job was in the index.
C10_Witness ==
    /\ ret.op = "complete_job"
    /\ ret.val = FALSE
    /\ \E i \in 1..Len(jobs) :
           jobs[i].job_id = ret.job_id /\ jobs[i].status = COMPLETED
    /\ Len(job_lookup) = 1

\* C3: the current priority of a Pending job with initial priority p and
\* aging interval a that has waited t is min(5, p + floor(t / a)); it never
\* exceeds 5 and never decreases as the job waits.
C3_AgingLaw ==
    [][\A i \in 1..Len(jobs) :
         (jobs[i].status = PENDING /\ jobs'[i].status = PENDING) =>
            LET p == jobs[i].initial_priority
                a == jobs[i].aging_interval
                t == now - jobs[i].created_at
            IN  /\ current_priority(jobs[i], now)
                     = Min(5, p + FloorDiv(t, a))
                /\ current_priority(jobs[i], now) <= 5
                /\ current_priority(jobs'[i], now')
                     >= current_priority(jobs[i], now)]_vars

\* C9: submit_job with a negative page count, or with an aging interval
\* that is zero or negative, returns false and leaves the index unchanged.
C9_MalformedRejected ==
    [][(/\ ret'.op = "submit_job"
        /\ \/ ret'.pages < 0
           \/ ret'.aging_interval # NoArg /\ ret'.aging_interval[1] <= 0)
       => /\ ret'.val = FALSE
          /\ UNCHANGED qvars]_vars

\* C7: with the two submit_job callers and the aging worker interleaved in
\* any way, every submit_job returns true, and the status read that follows
\* them, if no job had expired by then, holds each submitted job_id exactly
\* once.
C7_ConcurrentSubmits ==
    /\ \A s \in Submitters : pc[s] = "done" => local[s].result = TRUE
    /\ (/\ pc[Reader] = "done"
        /\ \A i \in 1..Len(jobs) : jobs[i].status = PENDING)
       => \A s \in Submitters :
              Cardinality({k \in 1..Len(local[Reader].result.jobs) :
                             local[Reader].result.jobs[k].job_id
                               = SubmitterJobId(s)}) = 1

\* The status read returned both jobs after the aging worker had rebuilt
\* the heap at least once on its own.
C7_Witness ==
    /\ pc[Reader] = "done"
    /\ local[Reader].result.total_jobs = 2
    /\ counter > 4

\* The jobs of the index that the expiry sweep at clock t leaves active.
ActiveAfterSweep(t) ==
    {i \in 1..Len(jobs) :
       /\ \E k \in 1..Len(job_lookup) : job_lookup[k] = i
       /\ jobs[i].status = PENDING
       /\ ~(t - jobs[i].created_at > jobs[i].max_wait_time)}

\* C13: get_next_job returns None exactly when the expiry sweep leaves no
\* active job; otherwise it returns the job that is first in snapshot order,
\* and removes nothing: the index afterwards holds the jobs it held before
\* less the expired ones, and a second call at the same instant returns the
\* same job.
C13_GetNextJobPeeks ==
    [][ret'.op = "get_next_job" =>
         LET active == ActiveAfterSweep(now')
         IN  /\ (ret'.val = None) <=> (active = {})
             /\ active # {} =>
                   /\ LET snapshot ==
                              get_queue_status(QueueNext, now').result.jobs
                      IN  /\ snapshot # <<>>
                          /\ snapshot[1].job_id = ret'.val.job_id
                   /\ \E i \in active :
                        /\ jobs[i].job_id = ret'.val.job_id
                        /\ \A j \in active :
                             /\ current_priority(jobs[i], now')
                                  >= current_priority(jobs[j], now')
                             /\ current_priority(jobs[i], now')
                                  = current_priority(jobs[j], now')
                                => jobs[i].created_at <= jobs[j].created_at
             /\ {job_lookup'[k] : k \in 1..Len(job_lookup')} = active
             /\ \A i \in active : jobs'[i] = jobs[i]
             /\ get_next_job(QueueNext, now').result = ret'.val]_vars

\* get_next_job returned the later of two jobs and left both in the index.
C13_Witness ==
    /\ ret.op = "get_next_job"
    /\ ret.val # None
    /\ Len(job_lookup) = 2
    /\ jobs[job_lookup[2]].job_id = ret.val.job_id

\* C18: the heap and the lookup hold the same jobs, the heap holds each of
\* them once, and every one of them is Pending, after each operation of the
\* index.
C18_IndexConsistent ==
    /\ {heap[k].job : k \in 1..Len(heap)}
         = {job_lookup[k] : k \in 1..Len(job_lookup)}
    /\ \A a, b \in 1..Len(heap) : heap[a].job = heap[b].job => a = b
    /\ \A a, b \in 1..Len(job_lookup) :
          jobs[job_lookup[a]].job_id = jobs[job_lookup[b]].job_id => a = b
    /\ \A k \in 1..Len(heap) : jobs[heap[k].job].status = PENDING
    /\ \A k \in 1..Len(job_lookup) : jobs[job_lookup[k]].status = PENDING

\* One Pending job is left in the heap after another was swept.
C18_Witness ==
    /\ Len(heap) = 1
    /\ jobs[heap[1].job].status = PENDING
    /\ \E i \in 1..Len(jobs) :
          jobs[i].status = EXPIRED /\ jobs[i].created_at < now

\* C20: complete_job of a job that is in the index with its wait time
\* beyond max_wait_time returns true and leaves the job Completed, and a
\* Completed job stays Completed.
C20_CompleteDoesNotSweep ==
    [][/\ ret'.op = "complete_job" =>
            \A k \in 1..Len(job_lookup) :
                (/\ jobs[job_lookup[k]].job_id = ret'.job_id
                 /\ is_expired(jobs[job_lookup[k]], now'))
                => /\ ret'.val = TRUE
                   /\ jobs'[job_lookup[k]].status = COMPLETED
       /\ \A i \in 1..Len(jobs) :
            jobs[i].status = COMPLETED => jobs'[i].status = COMPLETED]_vars

\* complete_job returned true for a job past its max_wait_time.
C20_Witness ==
    /\ ret.op = "complete_job"
    /\ ret.val = TRUE
    /\ \E i \in 1..Len(jobs) :
          /\ jobs[i].job_id = ret.job_id
          /\ jobs[i].status = COMPLETED
          /\ now - jobs[i].created_at > jobs[i].max_wait_time

\* C19: after every enqueue_job and every tick of PrintQueueManager the
\* queue is in descending order of priority, and of two jobs of equal
\* priority the one that has waited longer comes first.
C19_TickOrder ==
    \A a, b \in 1..Len(queue) :
        a < b => /\ queue[a].priority >= queue[b].priority
                 /\ queue[a].priority = queue[b].priority
                    => queue[a].waiting_time >= queue[b].waiting_time

\* C15: the map submit_simultaneous_jobs returns has, for every job_id of
\* the batch, true exactly when the call added a job with that id to the
\* index.
C15_BatchResults ==
    [][ret'.op = "submit_simultaneous_jobs" =>
         LET job_list == ret'.job_list
             ids == {job_list[k].job_id : k \in 1..Len(job_list)}
             added == {jobs'[i].job_id : i \in (Len(jobs) + 1)..Len(jobs')}
         IN  /\ DOMAIN ret'.val = ids
             /\ \A id \in ids : ret'.val[id] = (id \in added)]_vars

\* The reads of the facade that return the queue status or a view of it.
StatusReads == {"handle_tick_event", "get_job_metadata",
                "get_visualization_data", "get_print_order_report",
                "get_system_health"}

\* C16: with a callback registered, every status read of the facade invokes
\* the callback registered last, once, and no other.
C16_CallbackAfterEveryRead ==
    [][(ret'.op \in StatusReads /\ status_change_callback # NoCallback)
         => ret'.called = <<status_change_callback>>]_vars

\* The job with this id is in the index, Pending, past its max_wait_time.
Overdue(id) ==
    \E k \in 1..Len(job_lookup) :
        /\ jobs[job_lookup[k]].job_id = id
        /\ jobs[job_lookup[k]].status = PENDING
        /\ is_expired(jobs[job_lookup[k]], now)

\* The job with this id is Expired and out of the index.
Swept(id) ==
    /\ id \notin IndexIds
    /\ \E i \in 1..Len(jobs) :
          jobs[i].job_id = id /\ jobs[i].status = EXPIRED

\* C14: while the aging thread runs, a Pending job past its max_wait_time
\* is eventually Expired and out of the index, whether or not a caller
\* reads the queue; and the aging thread does not hold the lock while it
\* sleeps.
C14_WorkerSweeps ==
    /\ [](pc[Worker] = "start" => lock # Worker)
    /\ \A s \in Submitters : Overdue(SubmitterJobId(s)) ~> Swept(SubmitterJobId(s))

\* The aging thread swept a job and sleeps again; no caller has read.
C14_Witness ==
    /\ pc[Reader] = "start"
    /\ pc[Worker] = "start"
    /\ \E s \in Submitters : Swept(SubmitterJobId(s))

\* The positions whose statement reads or writes the lookup map, the heap
\* or the status of a job in them.
IndexAccess == {"add_check", "add_push", "add_lookup", "add_counter",
                "cleanup_scan", "cleanup_delete", "rebalance",
                "rebuild_list", "rebuild_clear", "rebuild_push", "snapshot",
                "remove_check", "remove_pop", "remove_status", "size_iter"}

\* C11: a thread executes a statement that reads or writes the index only
\* while it holds the manager's lock; submit_job, complete_job,
\* get_queue_status, the aging thread's pass and the size() calls of the
\* facade's cleanup_expired_jobs included.
C11_IndexUnderLock ==
    [][\A t \in Threads :
         (pc[t] \in IndexAccess /\ (pc'[t] # pc[t] \/ local'[t] # local[t]))
         => lock = t]_vars

\* C17: the number cleanup_expired_jobs returns is the number of jobs that
\* the sweep of its own get_queue_status call marked Expired.
C17_CleanupCount ==
    pc[Cleaner] = "done"
    => local[Cleaner].result = Len(local[Cleaner].expired_jobs)

\* C12: once a stop_aging_system call that no start_aging_system call
\* overlapped has returned, and until start_aging_system is called again,
\* no aging thread acquires the manager's lock.
C12_NoLockAfterStop ==
    [][(ret.op = "stop_aging_system" /\ ret.returned /\ ret.quiet)
         => ~(lock' \in Workers /\ lock' # lock)]_vars

\* The aging threads that were started and have not ended.
AliveWorkers == {w \in Workers : pc[w] \notin {"unborn", "created", "dead"}}

\* C21: at most one aging thread is alive at any time, whatever the
\* interleaving of start_aging_system and stop_aging_system calls.
C21_OneAgingThread == Cardinality(AliveWorkers) <= 1

====
